---- MODULE Spec2Model ----
(***************************************************************************)
(* TFDataSet (src/tf_dataset.py): a helper that builds an input pipeline   *)
(* over the files matching a pattern.  read() composes list_files, repeat, *)
(* a reader (interleaved when shuffling, sequential otherwise), an         *)
(* optional modulo shard filter, an optional shuffle buffer, the           *)
(* per-record parse hook _map and batch, and returns a one-shot cursor.    *)
(* _count_num_records() drains a single-epoch record stream and counts it, *)
(* get_size() caches that count in the attribute _size.                    *)
(***************************************************************************)
EXTENDS Integers, Sequences, FiniteSets, TLC

\* ---------------------------------------------------------------- bounds
MaxFiles == 2
MaxRecs == 2
MaxEpochs == 2
MaxBatch == 2
MaxWorkers == 2
MaxPulls == 3
MaxShuffledPulls == 2
MaxCalls == 2

\* ------------------------------------------------------ program constants
\* num_epochs=None: Dataset.repeat(None) repeats without end (count -1).
Forever == -1
\* shuffle_size=None, the constructor's default.
NoShuffleSize == 0
\* block_length=1 of the interleave in the shuffled path.
BlockLength == 1

VARIABLES
    fileLens,        \* the files matching data_files_pattern, in listing order:
                     \* fileLens[f] is the number of records (lines) of file f
    shuffle_size,    \* self.shuffle_size
    map_overridden,  \* whether a subclass overrides _map
    has_size,        \* whether the attribute self._size exists
    size_val,        \* self._size when it exists
    readArgs,        \* the arguments of the read() call made, if any
    readOutcome,     \* how that read() call ended
    cursor,          \* the pipeline behind the cursor read() returned
    yielded,         \* what each invocation of the cursor gave, in order
    sizeCall,        \* the last get_size() / _count_num_records() call
    gsCalls,         \* number of get_size() calls made
    drains,          \* number of counting drains run
    shards           \* per worker, the enumerated records its shard kept

vars == <<fileLens, shuffle_size, map_overridden, has_size, size_val, readArgs,
          readOutcome, cursor, yielded, sizeCall, gsCalls, drains, shards>>

Min(a, b) == IF a < b THEN a ELSE b

RECURSIVE SumLens(_, _)
SumLens(lens, f) == IF f > Len(lens) THEN 0 ELSE lens[f] + SumLens(lens, f + 1)

\* total number of records in all files matching the pattern
TotalRecords == SumLens(fileLens, 1)

NumFiles == Len(fileLens)

\* ------------------------------------------------------- input domains
FileSets == UNION {[1..n -> 0..MaxRecs] : n \in 0..MaxFiles}
\* shuffle_size: unset, or a buffer of one or two elements
ShuffleSizes == {NoShuffleSize, 1, 2}
BatchSizes == 1..MaxBatch
EpochCounts == {Forever} \cup (1..MaxEpochs)
\* multiprocessing.cpu_count()
CpuCounts == {1, 2}
NoTaskSpec == [present |-> FALSE, num_workers |-> 0, index |-> 0]
TaskSpecs == {NoTaskSpec} \cup
    {t \in [present : {TRUE}, num_workers : 1..MaxWorkers, index : 0..(MaxWorkers - 1)] :
        t.index < t.num_workers}

\* ------------------------------------------------ the file-name stream
\* Dataset.list_files(pattern).repeat(num_epochs), lines 41-43: the stream
\* has no p-th element (p counted from 1) when no file matches or when the
\* requested number of passes is over; repeat(None) never ends a non-empty
\* listing.
RepeatEnded(p, num_epochs) ==
    \/ NumFiles = 0
    \/ num_epochs # Forever /\ p > NumFiles * num_epochs

\* the p-th file name of the repeated listing
FileNameAt(p) == ((p - 1) % NumFiles) + 1

\* the records of file f, in file order
FileRecords(f) == [l \in 1..fileLens[f] |-> <<f, l>>]

\* Capacity of the in-memory list of line 53, larger than every finite
\* enumeration within the bounds: only an endless file-name stream fills it.
MemCap == MaxFiles * MaxEpochs + 1

\* lines 53-61: the blocking loop that appends every file name the one-shot
\* iterator gives until it raises OutOfRangeError, which is swallowed.
RECURSIVE DrainFileNames(_, _, _)
DrainFileNames(num_epochs, p, files) ==
    IF RepeatEnded(p, num_epochs) THEN [ended |-> TRUE, files |-> files]
    ELSE IF Len(files) >= MemCap THEN [ended |-> FALSE, files |-> files]
    ELSE DrainFileNames(num_epochs, p + 1, Append(files, FileNameAt(p)))

RECURSIVE ReadFilesFrom(_, _)
ReadFilesFrom(files, i) ==
    IF i > Len(files) THEN <<>>
    ELSE FileRecords(files[i]) \o ReadFilesFrom(files, i + 1)

\* mutant: the reader reads the listing once, losing the repeated epochs
SequentialReader_OneEpoch(files) ==
    ReadFilesFrom(SubSeq(files, 1, Min(Len(files), NumFiles)), 1)

\* line 62: dataset_class(files), a single reader over the fixed list that
\* reads the files one after the other
SequentialReader(files) == ReadFilesFrom(files, 1)

\* ------------------------------------------------------ the read stage
NextInCycle(ci, cycle_length) == (ci % cycle_length) + 1

\* line 48: cycle_length = multiprocessing.cpu_count() + 1
CycleLength(cpu) == cpu + 1

\* lines 46-50: dataset.interleave(dataset_class, cycle_length, block_length=1),
\* one element on demand.  c.slots[ci] is <<>> or <<f, l>>: file f is open and
\* its next record is l; c.p is the next file name to take from the repeated
\* listing.  An open slot gives one record and the cycle moves on; an
\* exhausted slot is closed and the cycle moves on; an empty slot takes the
\* next file name while the listing has one; the stream ends when the
\* listing has ended and every slot is closed.
RECURSIVE InterleaveNext(_)
InterleaveNext(c) ==
    LET ci == c.ci
        n  == Len(c.slots)
    IN  IF c.slots[ci] # <<>> THEN
            LET f == c.slots[ci][1]
                l == c.slots[ci][2]
            IN  IF l <= fileLens[f]
                THEN [got |-> TRUE, elem |-> <<f, l>>,
                      c |-> [c EXCEPT !.slots[ci] = <<f, l + BlockLength>>,
                                      !.ci = NextInCycle(ci, n)]]
                ELSE InterleaveNext([c EXCEPT !.slots[ci] = <<>>,
                                              !.ci = NextInCycle(ci, n)])
        ELSE IF ~RepeatEnded(c.p, c.num_epochs) THEN
            InterleaveNext([c EXCEPT !.slots[ci] = <<FileNameAt(c.p), 1>>,
                                     !.p = c.p + 1])
        ELSE IF \E s \in 1..n : c.slots[s] # <<>> THEN
            InterleaveNext([c EXCEPT !.ci = NextInCycle(ci, n)])
        ELSE [got |-> FALSE, elem |-> <<>>, c |-> c]

\* line 62: the reader over the fixed list gives its next record
SequentialNext(c) ==
    IF c.rpos >= Len(c.records) THEN [got |-> FALSE, elem |-> <<>>, c |-> c]
    ELSE [got |-> TRUE, elem |-> c.records[c.rpos + 1],
          c |-> [c EXCEPT !.rpos = c.rpos + 1]]

\* lines 44-62: the next element of the read stage
ReadStageNext(c) == IF c.shuffled THEN InterleaveNext(c) ELSE SequentialNext(c)

\* a repeat(None) over at least one file never ends
Endless(num_epochs) == num_epochs = Forever /\ NumFiles > 0

\* ----------------------------------------------------- the shard filter
\* mutant: the remainder is compared with the worker count instead of the index
filter_fn_WrongOperand(elem_index, task_spec) ==
    (elem_index % task_spec.num_workers) = (task_spec.num_workers - 1)

\* mutant: the index is taken modulo the worker's index plus one
filter_fn_SwappedOperands(elem_index, task_spec) ==
    (elem_index % (task_spec.index + 1)) = 0

\* lines 69-71: filter_fn keeps an element when its index modulo the worker
\* count equals the worker's index
filter_fn(elem_index, task_spec) ==
    (elem_index % task_spec.num_workers) = task_spec.index

\* line 64: if task_spec and task_spec.num_workers > 1
Sharding(task_spec) == task_spec.present /\ task_spec.num_workers > 1

\* lines 64-73: the next element after the optional shard filter:
\* dataset.enumerate() numbers the elements of the read stage from 0,
\* filter(filter_fn) passes the numbered elements filter_fn keeps and
\* map(lambda _, elem: elem) drops the number.  c.produced is what the read
\* stage has given so far, c.kept the numbered elements passed on.
RECURSIVE ShardNext(_)
ShardNext(c) ==
    LET r == ReadStageNext(c)
        k == Len(c.produced)
        d == [r.c EXCEPT !.produced = Append(c.produced, r.elem)]
    IN  IF ~r.got THEN [got |-> FALSE, elem |-> <<>>, c |-> r.c]
        ELSE IF Sharding(c.task_spec) /\ ~filter_fn(k, c.task_spec)
        THEN ShardNext(d)
        ELSE [got |-> TRUE, elem |-> r.elem,
              c |-> [d EXCEPT !.kept = Append(c.kept, <<k, r.elem>>)]]

\* -------------------------------------------------------- read()
\* mutant: the check is made in the non-shuffled path
ShuffleSizeMissing_Inverted(shuffle) == ~shuffle /\ shuffle_size = NoShuffleSize

\* lines 75-78: shuffling without a configured shuffle_size
ShuffleSizeMissing(shuffle) == shuffle /\ shuffle_size = NoShuffleSize

NoCursor ==
    [shuffled |-> FALSE, num_epochs |-> 0, task_spec |-> NoTaskSpec, batch_size |-> 0,
     buffer_size |-> 0, records |-> <<>>, rpos |-> 0, slots |-> <<>>, p |-> 0, ci |-> 0,
     produced |-> <<>>, kept |-> <<>>, buf |-> <<>>, hung |-> FALSE]

\* lines 41-90: the pipeline behind the cursor.  In the non-shuffled path
\* records is the stream of the reader over the enumerated list and rpos the
\* number of its records consumed; in the shuffled path slots, p and ci are
\* the state of the interleave; buf is the shuffle buffer.
MakeCursor(batch_size, num_epochs, shuffle, task_spec, cpu) ==
    [shuffled |-> shuffle,
     num_epochs |-> num_epochs,
     task_spec |-> task_spec,
     batch_size |-> batch_size,
     buffer_size |-> IF shuffle THEN shuffle_size ELSE 0,
     records |-> IF shuffle THEN <<>>
                 ELSE SequentialReader(DrainFileNames(num_epochs, 1, <<>>).files),
     rpos |-> 0,
     slots |-> IF shuffle THEN [s \in 1..CycleLength(cpu) |-> <<>>] ELSE <<>>,
     p |-> IF shuffle THEN 1 ELSE 0,
     ci |-> IF shuffle THEN 1 ELSE 0,
     produced |-> <<>>,
     kept |-> <<>>,
     buf |-> <<>>,
     hung |-> FALSE]

\* lines 41-90 in statement order: the enumeration loop of the non-shuffled
\* path, the shuffle_size check, dataset.map(self._map) (which calls _map
\* while the pipeline is built), batch and the cursor.
ReadOutcome(num_epochs, shuffle) ==
    IF ~shuffle /\ ~DrainFileNames(num_epochs, 1, <<>>).ended THEN "diverged"
    ELSE IF ShuffleSizeMissing(shuffle) THEN "ValueError"
    ELSE IF ~map_overridden THEN "NotImplementedError"
    ELSE "cursor"

NoArgs ==
    [batch_size |-> 0, num_epochs |-> 0, shuffle |-> FALSE, task_spec |-> NoTaskSpec]

NoSizeCall ==
    [op |-> "none", outcome |-> "none", ret |-> 0, fail_at |-> <<>>,
     create_fails |-> FALSE]

NoShards == [num_workers |-> 0, num_epochs |-> 0, batch_size |-> 0, got |-> <<>>]

Read(batch_size, num_epochs, shuffle, task_spec, cpu) ==
    /\ readOutcome = "none"
    /\ readArgs' = [batch_size |-> batch_size, num_epochs |-> num_epochs,
                    shuffle |-> shuffle, task_spec |-> task_spec]
    /\ readOutcome' = ReadOutcome(num_epochs, shuffle)
    /\ cursor' = IF readOutcome' = "cursor"
                 THEN MakeCursor(batch_size, num_epochs, shuffle, task_spec, cpu)
                 ELSE NoCursor
    /\ UNCHANGED <<fileLens, shuffle_size, map_overridden, has_size, size_val,
                   yielded, sizeCall, gsCalls, drains, shards>>

\* ------------------------------------------------- invoking the cursor
\* the per-record parse hook of a subclass: one parsed tuple per record
ParseHook(example_serialized) == [parsed |-> example_serialized]

RemoveAt(s, i) == SubSeq(s, 1, i - 1) \o SubSeq(s, i + 1, Len(s))

\* line 79: dataset.shuffle(buffer_size) tops its buffer up from upstream
RECURSIVE FillBuffer(_)
FillBuffer(c) ==
    IF Len(c.buf) >= c.buffer_size THEN c
    ELSE LET r == ShardNext(c)
         IN  IF ~r.got THEN r.c
             ELSE FillBuffer([r.c EXCEPT !.buf = Append(c.buf, r.elem)])

\* lines 75-79: the next element before _map: the next element after the
\* shard filter, or in the shuffled path an element of the topped-up buffer
\* picked by `choice`
PullOne(c, choice) ==
    IF c.shuffled
    THEN LET f == FillBuffer(c)
             i == ((choice - 1) % Len(f.buf)) + 1
         IN  IF f.buf = <<>> THEN [got |-> FALSE, elem |-> <<>>, c |-> f]
             ELSE [got |-> TRUE, elem |-> f.buf[i],
                   c |-> [f EXCEPT !.buf = RemoveAt(f.buf, i)]]
    ELSE ShardNext(c)

\* mutant: the batch stage takes one element more than batch_size
RECURSIVE BatchLoop_OneMore(_, _, _, _)
BatchLoop_OneMore(c, choices, i, acc) ==
    IF i > c.batch_size + 1 THEN [c |-> c, batch |-> acc]
    ELSE LET r == PullOne(c, choices[Min(i, c.batch_size)])
         IN  IF ~r.got THEN [c |-> r.c, batch |-> acc]
             ELSE BatchLoop_OneMore(r.c, choices, i + 1,
                                    Append(acc, ParseHook(r.elem)))

\* lines 82-89: dataset.map(self._map).batch(batch_size): up to batch_size
\* parsed elements; the stream ending early leaves a shorter batch
RECURSIVE BatchLoop(_, _, _, _)
BatchLoop(c, choices, i, acc) ==
    IF i > c.batch_size THEN [c |-> c, batch |-> acc]
    ELSE LET r == PullOne(c, choices[i])
         IN  IF ~r.got THEN [c |-> r.c, batch |-> acc]
             ELSE BatchLoop(r.c, choices, i + 1, Append(acc, ParseHook(r.elem)))

\* the random picks one invocation can make
Choices(c) == [1..c.batch_size -> 1..(IF c.shuffled THEN c.buffer_size ELSE 1)]

\* an endless interleave over files without any record never gives an element
Spinning(c) == c.shuffled /\ Endless(c.num_epochs) /\ TotalRecords = 0

\* line 90: one invocation of the cursor returned by read(): a batch, or the
\* end-of-sequence signal when no element is left, or no return at all
GetNext ==
    /\ readOutcome = "cursor"
    /\ ~cursor.hung
    /\ Len(yielded) < (IF cursor.shuffled THEN MaxShuffledPulls ELSE MaxPulls)
    /\ IF Spinning(cursor)
       THEN /\ cursor' = [cursor EXCEPT !.hung = TRUE]
            /\ yielded' = yielded
       ELSE \E choices \in Choices(cursor) :
               LET r == BatchLoop(cursor, choices, 1, <<>>)
               IN  /\ cursor' = r.c
                   /\ yielded' = Append(yielded, [eos |-> r.batch = <<>>,
                                                  batch |-> r.batch])
    /\ UNCHANGED <<fileLens, shuffle_size, map_overridden, has_size, size_val,
                   readArgs, readOutcome, sizeCall, gsCalls, drains, shards>>

\* ------------------------------------------------- the record counter
\* mutant: the counter returns the unused local `size` of line 120
CountLoop_ReturnsSize(stream, samples, fail_at) == 0

\* lines 124-132: the drain.  Each sess.run that gives a record adds one to
\* samples; the run that raises ends the loop in the bare except, and samples
\* is returned.  The run raises OutOfRangeError at the end of the stream, or
\* another error once k records are counted when fail_at is <<k>> (<<>>: no
\* such error).
RECURSIVE CountLoop(_, _, _)
CountLoop(stream, samples, fail_at) ==
    IF fail_at = <<samples>> THEN samples
    ELSE IF samples >= Len(stream) THEN samples
    ELSE CountLoop(stream, samples + 1, fail_at)

\* lines 121-122: the non-shuffled, non-batched stream of a single pass
CountStream == ReadFilesFrom([p \in 1..NumFiles |-> FileNameAt(p)], 1)

\* lines 114-132: _count_num_records; a failure of make_one_shot_iterator
\* (line 125) is inside the try as well
CountNumRecordsValue(fail_at, create_fails) ==
    IF create_fails THEN 0 ELSE CountLoop(CountStream, 0, fail_at)

Faults == {<<>>} \cup {<<k>> : k \in 0..TotalRecords}

\* a direct call of _count_num_records()
CountNumRecords(fail_at, create_fails) ==
    /\ drains < MaxCalls
    /\ drains' = drains + 1
    /\ sizeCall' = [op |-> "count", outcome |-> "returned",
                    ret |-> CountNumRecordsValue(fail_at, create_fails),
                    fail_at |-> fail_at, create_fails |-> create_fails]
    /\ UNCHANGED <<fileLens, shuffle_size, map_overridden, has_size, size_val,
                   readArgs, readOutcome, cursor, yielded, gsCalls, shards>>

\* the value None of self._size
NoSize == -1

\* lines 134-137: get_size().  Reading self._size raises AttributeError when
\* the attribute does not exist; when it is None the count is computed and
\* stored; the stored value is returned.
GetSize(fail_at, create_fails) ==
    /\ gsCalls < MaxCalls
    /\ gsCalls' = gsCalls + 1
    /\ IF ~has_size
       THEN /\ sizeCall' = [op |-> "get_size", outcome |-> "AttributeError", ret |-> 0,
                            fail_at |-> fail_at, create_fails |-> create_fails]
            /\ UNCHANGED <<has_size, size_val, drains>>
       ELSE /\ size_val' = IF size_val = NoSize
                           THEN CountNumRecordsValue(fail_at, create_fails)
                           ELSE size_val
            /\ drains' = IF size_val = NoSize THEN drains + 1 ELSE drains
            /\ sizeCall' = [op |-> "get_size", outcome |-> "returned", ret |-> size_val',
                            fail_at |-> fail_at, create_fails |-> create_fails]
            /\ UNCHANGED has_size
    /\ UNCHANGED <<fileLens, shuffle_size, map_overridden, readArgs, readOutcome,
                   cursor, yielded, shards>>

\* ---------------------------------------------------------------- Init
\* lines 12-28: the constructor sets name, data_files_pattern, dataset_class,
\* min_queue_examples and shuffle_size; it does not create _size.
Init ==
    /\ fileLens \in FileSets
    /\ shuffle_size \in ShuffleSizes
    /\ map_overridden \in BOOLEAN
    /\ has_size = FALSE
    /\ size_val = NoSize
    /\ readArgs = NoArgs
    /\ readOutcome = "none"
    /\ cursor = NoCursor
    /\ yielded = <<>>
    /\ sizeCall = NoSizeCall
    /\ gsCalls = 0
    /\ drains = 0
    /\ shards = NoShards

\* read() and the invocations of the cursor it returns
Next ==
    \/ \E batch_size \in BatchSizes, num_epochs \in EpochCounts, shuffle \in BOOLEAN,
          task_spec \in TaskSpecs, cpu \in CpuCounts :
          Read(batch_size, num_epochs, shuffle, task_spec, cpu)
    \/ GetNext

Spec == Init /\ [][Next]_vars

\* get_size() and _count_num_records(): they read the files and _size only,
\* which read() and its cursor do not change
SizeNext ==
    \/ \E fail_at \in Faults, create_fails \in BOOLEAN :
          CountNumRecords(fail_at, create_fails)
    \/ \E fail_at \in Faults, create_fails \in BOOLEAN : GetSize(fail_at, create_fails)

SpecSize == Init /\ [][SizeNext]_vars

\* ------------------------------------------- several workers, one shard each
NotRun == [outcome |-> "none", cursor |-> NoCursor, yielded |-> <<>>]

\* a worker has finished when its read() gave no cursor or its cursor has
\* signalled end-of-sequence or has been invoked MaxPulls times
Finished(w) ==
    /\ w.outcome # "none"
    /\ \/ w.outcome # "cursor"
       \/ Len(w.yielded) >= MaxPulls
       \/ \E j \in 1..Len(w.yielded) : w.yielded[j].eos

\* The workers are separate processes that share nothing but the files,
\* which they only read: their steps commute, so they are run one after
\* the other, in index order.
Turn(index) ==
    /\ shards # NoShards
    /\ index \in DOMAIN shards.got
    /\ \A j \in DOMAIN shards.got : j < index => Finished(shards.got[j])

\* worker `index` of shards.num_workers calls
\* read(shards.batch_size, shards.num_epochs, shuffle=False, task_spec)
WorkerRead(index) ==
    /\ Turn(index)
    /\ shards.got[index].outcome = "none"
    /\ LET ts  == [present |-> TRUE, num_workers |-> shards.num_workers, index |-> index]
           out == ReadOutcome(shards.num_epochs, FALSE)
       IN  shards' = [shards EXCEPT !.got[index] =
                        [outcome |-> out,
                         cursor |-> IF out = "cursor"
                                    THEN MakeCursor(shards.batch_size, shards.num_epochs,
                                                    FALSE, ts, 1)
                                    ELSE NoCursor,
                         yielded |-> <<>>]]
    /\ UNCHANGED <<fileLens, shuffle_size, map_overridden, has_size, size_val, readArgs,
                   readOutcome, cursor, yielded, sizeCall, gsCalls, drains>>

\* worker `index` invokes its cursor once
WorkerGetNext(index) ==
    /\ Turn(index)
    /\ shards.got[index].outcome = "cursor"
    /\ ~Finished(shards.got[index])
    /\ LET w == shards.got[index]
           r == BatchLoop(w.cursor, [j \in 1..w.cursor.batch_size |-> 1], 1, <<>>)
       IN  shards' = [shards EXCEPT !.got[index] =
                        [w EXCEPT !.cursor = r.c,
                                  !.yielded = Append(w.yielded, [eos |-> r.batch = <<>>,
                                                                 batch |-> r.batch])]]
    /\ UNCHANGED <<fileLens, shuffle_size, map_overridden, has_size, size_val, readArgs,
                   readOutcome, cursor, yielded, sizeCall, gsCalls, drains>>

ShardInit ==
    /\ fileLens \in FileSets
    /\ shuffle_size = NoShuffleSize
    /\ map_overridden \in BOOLEAN
    /\ has_size = FALSE
    /\ size_val = NoSize
    /\ readArgs = NoArgs
    /\ readOutcome = "none"
    /\ cursor = NoCursor
    /\ yielded = <<>>
    /\ sizeCall = NoSizeCall
    /\ gsCalls = 0
    /\ drains = 0
    /\ \E w \in 2..MaxWorkers, ne \in EpochCounts, bs \in BatchSizes :
          shards = [num_workers |-> w, num_epochs |-> ne, batch_size |-> bs,
                    got |-> [i \in 0..(w - 1) |-> NotRun]]

WorkersNext ==
    \/ \E index \in 0..(MaxWorkers - 1) : WorkerRead(index)
    \/ \E index \in 0..(MaxWorkers - 1) : WorkerGetNext(index)

SpecShard == ShardInit /\ [][WorkersNext]_vars

\* ------------------------------------------------------------ properties
\* the records of the matching files and their order: file by file in
\* listing order, line by line within a file
AllRecords == UNION {{<<f, l>> : l \in 1..fileLens[f]} : f \in 1..NumFiles}
Before(r) == {q \in AllRecords : q[1] < r[1] \/ (q[1] = r[1] /\ q[2] < r[2])}

\* the record at position k (from 0) of the files read in order, pass after pass
ExpectedAt(k) ==
    CHOOSE r \in AllRecords : Cardinality(Before(r)) = k % Cardinality(AllRecords)

\* the concatenation of the batches of a sequence of cursor results
RECURSIVE ConcatFrom(_, _)
ConcatFrom(ys, j) == IF j > Len(ys) THEN <<>> ELSE ys[j].batch \o ConcatFrom(ys, j + 1)
Delivered(ys) == ConcatFrom(ys, 1)

SawEos(ys) == \E j \in 1..Len(ys) : ys[j].eos

ReadCalled == readOutcome # "none"

\* C1 (as claimed): every get_size() call on an instance built by the
\* constructor returns the record count of the matching files.
C1_GetSizeReturnsCount ==
    (sizeCall.op = "get_size" /\ sizeCall.fail_at = <<>> /\ ~sizeCall.create_fails)
        => /\ sizeCall.outcome = "returned"
           /\ sizeCall.ret = Cardinality(AllRecords)
           /\ has_size /\ size_val = sizeCall.ret

\* C2: read(..., shuffle=True, ...) on an instance whose shuffle_size is
\* unset ends in ValueError whatever the other arguments are; there is no
\* cursor and nothing is delivered.
C2_ShuffleNeedsSize ==
    (ReadCalled /\ readArgs.shuffle /\ shuffle_size = NoShuffleSize)
        => /\ readOutcome = "ValueError"
           /\ cursor = NoCursor
           /\ yielded = <<>>

C2_Witness ==
    /\ readOutcome = "ValueError"
    /\ readArgs.shuffle
    /\ readArgs.num_epochs = Forever
    /\ readArgs.task_spec.num_workers > 1
    /\ NumFiles > 0

\* C3: without shuffling and without sharding, the batches of the cursor,
\* concatenated, are the parsed records of the matching files, file by file
\* in listing order, the whole listing num_epochs times: at every moment a
\* prefix of that stream, and all of it once end-of-sequence is signalled.
C3_SequentialOrder ==
    (readOutcome = "cursor" /\ ~readArgs.shuffle
        /\ ~(readArgs.task_spec.present /\ readArgs.task_spec.num_workers > 1))
        => LET d == Delivered(yielded)
               n == Cardinality(AllRecords) * readArgs.num_epochs
           IN  /\ Len(d) <= n
               /\ \A k \in 1..Len(d) : d[k] = [parsed |-> ExpectedAt(k - 1)]
               /\ SawEos(yielded) => Len(d) = n

C3_Witness ==
    /\ readOutcome = "cursor"
    /\ ~readArgs.shuffle
    /\ readArgs.task_spec.num_workers <= 1
    /\ readArgs.num_epochs = 2
    /\ NumFiles = 2 /\ fileLens[1] > 0 /\ fileLens[2] > 0
    /\ SawEos(yielded)
    /\ Len(Delivered(yielded)) >= 4

\* C4 (as claimed): every batch holds exactly batch_size records, and after
\* the end-of-sequence signal every invocation signals it again.
C4_EveryBatchFull ==
    readOutcome = "cursor"
        => \A j \in 1..Len(yielded) :
              /\ ~yielded[j].eos => Len(yielded[j].batch) = cursor.batch_size
              /\ (yielded[j].eos /\ j < Len(yielded)) => yielded[j + 1].eos

\* C4 (amended): every batch holds between 1 and batch_size records, and
\* every result that is followed by a batch is itself a batch of exactly
\* batch_size records: only the last batch before the end-of-sequence
\* signal can be shorter, and after the signal comes nothing but the signal.
C4_OnlyLastBatchShort ==
    readOutcome = "cursor"
        => \A j \in 1..Len(yielded) :
              /\ yielded[j].eos = (yielded[j].batch = <<>>)
              /\ Len(yielded[j].batch) <= cursor.batch_size
              /\ (j < Len(yielded) /\ ~yielded[j + 1].eos)
                    => (~yielded[j].eos /\ Len(yielded[j].batch) = cursor.batch_size)

C4_Witness ==
    /\ readOutcome = "cursor"
    /\ \E j \in 1..(Len(yielded) - 2) :
          /\ Len(yielded[j].batch) = cursor.batch_size
          /\ ~yielded[j + 1].eos
          /\ Len(yielded[j + 1].batch) < cursor.batch_size
          /\ yielded[j + 2].eos

\* C5: with a task_spec of more than one worker the shard filter passes on
\* exactly the elements of the read stage whose position k (from 0, counted
\* across the epochs) has k mod num_workers = index, in stream order;
\* otherwise it passes on every element.  What is passed on is what the
\* later stages hold or deliver.
C5_ShardKeepsModulo ==
    readOutcome = "cursor"
        => LET ts == readArgs.task_spec
               w  == IF ts.present /\ ts.num_workers > 1 THEN ts.num_workers ELSE 1
               i  == IF ts.present /\ ts.num_workers > 1 THEN ts.index ELSE 0
               pr == cursor.produced
               kp == cursor.kept
           IN  /\ Len(kp) = Cardinality({k \in 0..(Len(pr) - 1) : k % w = i})
               /\ \A j \in 1..Len(kp) :
                     kp[j] = <<(j - 1) * w + i, pr[(j - 1) * w + i + 1]>>
               /\ ~readArgs.shuffle => \A k \in 1..Len(pr) : pr[k] = ExpectedAt(k - 1)
               /\ Len(Delivered(yielded)) + Len(cursor.buf) = Len(kp)
               /\ ~readArgs.shuffle
                     => Delivered(yielded) = [j \in 1..Len(kp) |-> [parsed |-> kp[j][2]]]

C5_Witness ==
    /\ readOutcome = "cursor"
    /\ readArgs.task_spec.num_workers = 2
    /\ readArgs.task_spec.index = 1
    /\ readArgs.num_epochs = 2
    /\ Len(cursor.kept) >= 2
    /\ Len(cursor.produced) > Len(cursor.kept)
    /\ cursor.kept[2][1] >= Cardinality(AllRecords)

\* C6 (as claimed): on an instance that does not override _map, every read()
\* that passes the shuffle_size check ends in NotImplementedError.
C6_HookNotImplemented ==
    (ReadCalled /\ ~map_overridden /\ ~(readArgs.shuffle /\ shuffle_size = NoShuffleSize))
        => readOutcome = "NotImplementedError"

C8_ReadReturnsCursor ==
    (ReadCalled /\ map_overridden /\ ~(readArgs.shuffle /\ shuffle_size = NoShuffleSize))
        => readOutcome = "cursor"

\* C9 (as claimed): a failure other than exhaustion after k counted records
\* (k = 0 when the cursor cannot be created) is absorbed:
\* _count_num_records() returns k, and get_size() caches k.
C9_FailureAbsorbed ==
    (sizeCall.op # "none" /\ (sizeCall.fail_at # <<>> \/ sizeCall.create_fails))
        => LET k == IF sizeCall.create_fails THEN 0 ELSE sizeCall.fail_at[1]
           IN  /\ sizeCall.outcome = "returned"
               /\ sizeCall.ret = k
               /\ sizeCall.op = "get_size" => (has_size /\ size_val = k)

\* the positions of the read stage that worker i's shard has kept so far
Positions(i) ==
    {shards.got[i].cursor.kept[j][1] : j \in 1..Len(shards.got[i].cursor.kept)}

AllEnded ==
    /\ shards # NoShards
    /\ \A i \in DOMAIN shards.got :
          shards.got[i].outcome = "cursor" /\ SawEos(shards.got[i].yielded)

\* C10: W > 1 workers reading the same files with the same num_epochs,
\* shuffle=False and indexes 0..W-1.  No position of the multi-epoch stream
\* is kept by two workers, a worker delivers the records at the positions
\* it kept, and once every worker has run to end-of-sequence every position
\* has been kept by exactly one of them and the shard sizes differ by at
\* most 1.  Positions run across the epochs: when the record count of one
\* epoch is not a multiple of W, a record kept by a worker in one epoch
\* belongs to another worker in the next.
C10_ShardsPartition ==
    shards # NoShards
        => LET W == DOMAIN shards.got
               t == Cardinality(AllRecords)
               n == t * shards.num_epochs
           IN  /\ \A i \in W :
                     LET kp == shards.got[i].cursor.kept
                     IN  /\ \A j \in 1..Len(kp) :
                               kp[j][1] \in 0..(n - 1) /\ kp[j][2] = ExpectedAt(kp[j][1])
                         /\ Delivered(shards.got[i].yielded)
                               = [j \in 1..Len(kp) |-> [parsed |-> kp[j][2]]]
               /\ \A i, j \in W : i # j => Positions(i) \cap Positions(j) = {}
               /\ AllEnded =>
                     /\ UNION {Positions(i) : i \in W} = 0..(n - 1)
                     /\ \A i, j \in W : Cardinality(Positions(i)) <= Cardinality(Positions(j)) + 1
                     /\ t % shards.num_workers # 0 =>
                           \A i \in W : \A k \in Positions(i) :
                              k + t < n => (k + t) \notin Positions(i)

C10_Witness ==
    /\ AllEnded
    /\ shards.num_workers = 2
    /\ shards.num_epochs = 2
    /\ Cardinality(AllRecords) = 3
    /\ Cardinality(Positions(0)) = 3
    /\ Cardinality(Positions(1)) = 3
    /\ 0 \in Positions(0) /\ 3 \in Positions(1)
====
